---- MODULE Spec2Model ----
(***************************************************************************)
(* A model of the ansirs crate: the RGB colour type with its hexadecimal   *)
(* parser and formatter (src/src/colors.rs), the named palette with its    *)
(* successor function and iterator (src/src/colors.rs), and the renderer   *)
(* style_text (src/src/styled/mod.rs).                                     *)
(*                                                                         *)
(* Strings are sequences of characters.  A character is a one-element      *)
(* TLA+ string, except the escape control character (ESC) and the          *)
(* non-ASCII character E_ACUTE, which are named tokens.                    *)
(***************************************************************************)
EXTENDS Integers, Sequences, FiniteSets, TLC

VARIABLES
    hexIn,      \* the string handed to Color::from_hex
    hexOut,     \* the Result of Color::from_hex, or None before the call
    hexStr,     \* the String of Color::as_hex on the parsed colour, or None
    colorIn,    \* a Color made by Color::from_rgb
    walkStart,  \* the palette entry a chain of Colors::next calls began at
    walkCur,    \* the entry the chain has reached
    walkSteps,  \* the number of Colors::next calls made
    walkSeen,   \* the entries the chain has returned so far
    iterStart,  \* the entry ColorsIter::starting_with was given
    current,    \* ColorsIter.current
    yielded,    \* the items ColorsIter::next has returned, in order
    nones,      \* the number of times ColorsIter::next has returned None
    member,     \* a palette entry whose name and RGB triple are asked for
    nameOf,     \* the &str of member.name(), or None before the call
    rgbOf,      \* the tuple of member.rgb(), or None before the call
    base,       \* the value the descriptor was made from
    origin,     \* the descriptor the builder chain began with
    hist,       \* the builder methods called on it since, in order
    style,      \* the style source the caller holds
    text,       \* the displayable value last handed to style_text
    styled,     \* the String style_text returned, or None before the call
    conversions \* the number of times style_text converted the style source

hexVars == <<hexIn, hexOut, hexStr>>
rgbVars == <<colorIn>>
walkVars == <<walkStart, walkCur, walkSteps, walkSeen>>
iterVars == <<iterStart, current, yielded, nones>>
paletteVars == <<member, nameOf, rgbOf>>
styleVars == <<base, origin, hist, style, text, styled, conversions>>
vars == <<hexVars, rgbVars, walkVars, iterVars, paletteVars, styleVars>>

----------------------------------------------------------------------------
(* Bounds *)

\* longest string handed to from_hex, counted after the optional '#'
MaxDigits == 6
\* most '#' characters put in front of the digits
MaxHashes == 2
\* most Colors::next calls in one chain
MaxSteps == 150
\* most calls of ColorsIter::next after it is exhausted
MaxNones == 2
\* most builder methods called on one descriptor
MaxCalls == 3
\* longest text handed to style_text
MaxTextLen == 1

----------------------------------------------------------------------------
(* Characters *)

E_ACUTE == "E_ACUTE"

\* the characters the inputs of from_hex are built from
HexAlphabet == {"0", "a", "F", "+", E_ACUTE}

\* str::len counts bytes of the UTF-8 encoding
Utf8Len(c) == IF c = E_ACUTE THEN 2 ELSE 1

RECURSIVE StrLen(_)
StrLen(s) == IF s = <<>> THEN 0 ELSE Utf8Len(Head(s)) + StrLen(Tail(s))

LowerDigits == <<"0", "1", "2", "3", "4", "5", "6", "7", "8", "9",
                 "a", "b", "c", "d", "e", "f">>
UpperDigits == <<"0", "1", "2", "3", "4", "5", "6", "7", "8", "9",
                 "A", "B", "C", "D", "E", "F">>

\* char::to_digit(16): the value of a hexadecimal digit, or -1
ToDigit(c) ==
    IF \E i \in 1..16 : LowerDigits[i] = c
    THEN (CHOOSE i \in 1..16 : LowerDigits[i] = c) - 1
    ELSE IF \E i \in 1..16 : UpperDigits[i] = c
    THEN (CHOOSE i \in 1..16 : UpperDigits[i] = c) - 1
    ELSE -1

None == [tag |-> "None"]
Ok(v) == [tag |-> "Ok", val |-> v]
Err(e) == [tag |-> "Err", err |-> e]
Some(v) == [tag |-> "Some", val |-> v]

----------------------------------------------------------------------------
(* Color *)

U8Max == 255

from_rgb(r, g, b) == <<r, g, b>>

\* u8::from_str_radix(digits, 16) on the digits that follow the sign
RECURSIVE ParseDigits(_, _)
ParseDigits(digits, acc) ==
    IF digits = <<>> THEN Ok(acc)
    ELSE IF ToDigit(Head(digits)) = -1 THEN Err("ParseIntError")
    ELSE IF acc * 16 + ToDigit(Head(digits)) > U8Max THEN Err("ParseIntError")
    ELSE ParseDigits(Tail(digits), acc * 16 + ToDigit(Head(digits)))

\* convert: u8::from_str_radix(input, 16).map_err(ParseIntError).  The
\* standard parser rejects the empty string and a lone sign, and skips one
\* leading '+' (a leading '-' is a digit error for an unsigned type).
convert(input) ==
    IF input = <<>> THEN Err("ParseIntError")
    ELSE IF Len(input) = 1 /\ Head(input) \in {"+", "-"} THEN Err("ParseIntError")
    ELSE IF Head(input) = "+" THEN ParseDigits(Tail(input), 0)
    ELSE ParseDigits(input, 0)

UnknownEnd == Err("Unknown")

\* the loop with the three-digit form parsed one digit per channel
RECURSIVE FillChannelsNoDup(_, _, _)
FillChannelsNoDup(chars, is_double, rgb) ==
    IF Len(rgb) = 3 THEN Ok(from_rgb(rgb[1], rgb[2], rgb[3]))
    ELSE IF is_double
    THEN IF chars = <<>> THEN UnknownEnd
         ELSE IF Tail(chars) = <<>> THEN UnknownEnd
         ELSE LET v == convert(<<chars[1], chars[2]>>)
              IN  IF v.tag = "Err" THEN v
                  ELSE FillChannelsNoDup(Tail(Tail(chars)), is_double, Append(rgb, v.val))
    ELSE IF chars = <<>> THEN UnknownEnd
         ELSE LET v == convert(<<chars[1]>>)
              IN  IF v.tag = "Err" THEN v
                  ELSE FillChannelsNoDup(Tail(chars), is_double, Append(rgb, v.val))

\* the body of `for idx in &mut rgb`: chars is what the iterator has left,
\* rgb the channels filled so far
RECURSIVE FillChannels(_, _, _)
FillChannels(chars, is_double, rgb) ==
    IF Len(rgb) = 3 THEN Ok(from_rgb(rgb[1], rgb[2], rgb[3]))
    ELSE IF is_double
    THEN IF chars = <<>> THEN UnknownEnd
         ELSE IF Tail(chars) = <<>> THEN UnknownEnd
         ELSE LET v == convert(<<chars[1], chars[2]>>)
              IN  IF v.tag = "Err" THEN v
                  ELSE FillChannels(Tail(Tail(chars)), is_double, Append(rgb, v.val))
    ELSE IF chars = <<>> THEN UnknownEnd
         ELSE LET v == convert(<<chars[1], chars[1]>>)
              IN  IF v.tag = "Err" THEN v
                  ELSE FillChannels(Tail(chars), is_double, Append(rgb, v.val))

\* a test that holds of every non-empty string, whatever its first character
starts_withAny(string, c) == string # <<>>

\* str::starts_with(char)
starts_with(string, c) == string # <<>> /\ Head(string) = c

\* str::is_char_boundary: byte offset n is the start of a character or the end
RECURSIVE is_char_boundary(_, _)
is_char_boundary(string, n) ==
    IF n = 0 THEN TRUE
    ELSE IF string = <<>> THEN FALSE
    ELSE IF Utf8Len(Head(string)) > n THEN FALSE
    ELSE is_char_boundary(Tail(string), n - Utf8Len(Head(string)))

\* the panic of a slice that does not start on a character boundary
Panic == [tag |-> "Panic"]

StripHash(input) ==
    IF starts_with(input, "#") THEN Tail(input) ELSE input

from_hex(input) ==
    IF starts_with(input, "#") /\ ~is_char_boundary(input, 1) THEN Panic
    ELSE LET string == StripHash(input)
         IN  IF StrLen(string) # 3 /\ StrLen(string) # 6
             THEN Err("WrongLength")
             ELSE FillChannels(string, StrLen(string) = 6, <<>>)

\* {:02X}: uppercase digits in place of lowercase ones
UpperHex02(n) == <<UpperDigits[(n \div 16) + 1], UpperDigits[(n % 16) + 1]>>

\* {:x}: lowercase digits without the zero padding
LowerHexNoPad(n) ==
    IF n < 16 THEN <<LowerDigits[n + 1]>>
    ELSE <<LowerDigits[(n \div 16) + 1], LowerDigits[(n % 16) + 1]>>

\* {:02x}: lowercase hexadecimal, zero-padded to two digits
LowerHex02(n) == <<LowerDigits[(n \div 16) + 1], LowerDigits[(n % 16) + 1]>>

as_hex(color) ==
    <<"#">> \o LowerHex02(color[1]) \o LowerHex02(color[2]) \o LowerHex02(color[3])

----------------------------------------------------------------------------
(* Colors: the named palette *)

\* enum Colors, in declaration order
ColorsEnum == <<
    "Maroon", "DarkRed", "Brown", "Firebrick",
    "Crimson", "Red", "Tomato", "Coral",
    "IndianRed", "LightCoral", "DarkSalmon", "Salmon",
    "LightSalmon", "OrangeRed", "DarkOrange", "Orange",
    "Gold", "DarkGoldenRod", "GoldenRod", "PaleGoldenRod",
    "DarkKhaki", "Khaki", "Olive", "Yellow",
    "YellowGreen", "DarkOliveGreen", "OliveDrab", "LawnGreen",
    "Chartreuse", "GreenYellow", "DarkGreen", "Green",
    "ForestGreen", "Lime", "LimeGreen", "LightGreen",
    "PaleGreen", "DarkSeaGreen", "MediumSpringGreen", "SpringGreen",
    "SeaGreen", "MediumAquaMarine", "MediumSeaGreen", "LightSeaGreen",
    "DarkSlateGray", "Teal", "DarkCyan", "Aqua",
    "Cyan", "LightCyan", "DarkTurquoise", "Turquoise",
    "MediumTurquoise", "PaleTurquoise", "AquaMarine", "PowderBlue",
    "CadetBlue", "SteelBlue", "CornFlowerBlue", "DeepSkyBlue",
    "DodgerBlue", "LightBlue", "SkyBlue", "LightSkyBlue",
    "MidnightBlue", "Navy", "DarkBlue", "MediumBlue",
    "Blue", "RoyalBlue", "BlueViolet", "Indigo",
    "DarkSlateBlue", "SlateBlue", "MediumSlateBlue", "MediumPurple",
    "DarkMagenta", "DarkViolet", "DarkOrchid", "MediumOrchid",
    "Purple", "Thistle", "Plum", "Violet",
    "Magenta", "Fuschia", "Orchid", "MediumVioletRed",
    "PaleVioletRed", "DeepPink", "HotPink", "LightPink",
    "Pink", "AntiqueWhite", "Beige", "Bisque",
    "BlanchedAlmond", "Wheat", "CornSilk", "LemonChiffon",
    "LightGoldenRodYellow", "LightYellow", "SaddleBrown", "Sienna",
    "Chocolate", "Peru", "SandyBrown", "BurlyWood",
    "Tan", "RosyBrown", "Moccasin", "NavajoWhite",
    "PeachPuff", "MistyRose", "LavenderBlush", "Linen",
    "OldLace", "PapayaWhip", "SeaShell", "MintCream",
    "SlateGray", "LightSlateGray", "LightSteelBlue", "Lavender",
    "FloralWhite", "AliceBlue", "GhostWhite", "Honeydew",
    "Ivory", "Azure", "Snow", "Black",
    "DimGray", "DimGrey", "Gray", "Grey",
    "DarkGray", "DarkGrey", "Silver", "LightGray",
    "LightGrey", "Gainsboro", "WhiteSmoke", "White"
>>

Colors == {ColorsEnum[i] : i \in 1..Len(ColorsEnum)}

\* the arms of `match self` in Colors::next
NextArms(self) ==
    CASE self = "AliceBlue" -> "AntiqueWhite"
      [] self = "AntiqueWhite" -> "Aqua"
      [] self = "Aqua" -> "AquaMarine"
      [] self = "AquaMarine" -> "Azure"
      [] self = "Azure" -> "Beige"
      [] self = "Beige" -> "Bisque"
      [] self = "Bisque" -> "Black"
      [] self = "Black" -> "BlanchedAlmond"
      [] self = "BlanchedAlmond" -> "Blue"
      [] self = "Blue" -> "BlueViolet"
      [] self = "BlueViolet" -> "Brown"
      [] self = "Brown" -> "BurlyWood"
      [] self = "BurlyWood" -> "CadetBlue"
      [] self = "CadetBlue" -> "Chartreuse"
      [] self = "Chartreuse" -> "Chocolate"
      [] self = "Chocolate" -> "Coral"
      [] self = "Coral" -> "CornFlowerBlue"
      [] self = "CornFlowerBlue" -> "CornSilk"
      [] self = "CornSilk" -> "Crimson"
      [] self = "Crimson" -> "Cyan"
      [] self = "Cyan" -> "DarkBlue"
      [] self = "DarkBlue" -> "DarkCyan"
      [] self = "DarkCyan" -> "DarkGoldenRod"
      [] self = "DarkGoldenRod" -> "DarkGray"
      [] self = "DarkGray" -> "DarkGreen"
      [] self = "DarkGreen" -> "DarkGrey"
      [] self = "DarkGrey" -> "DarkKhaki"
      [] self = "DarkKhaki" -> "DarkMagenta"
      [] self = "DarkMagenta" -> "DarkOliveGreen"
      [] self = "DarkOliveGreen" -> "DarkOrange"
      [] self = "DarkOrange" -> "DarkOrchid"
      [] self = "DarkOrchid" -> "DarkRed"
      [] self = "DarkRed" -> "DarkSalmon"
      [] self = "DarkSalmon" -> "DarkSeaGreen"
      [] self = "DarkSeaGreen" -> "DarkSlateBlue"
      [] self = "DarkSlateBlue" -> "DarkSlateGray"
      [] self = "DarkSlateGray" -> "DarkTurquoise"
      [] self = "DarkTurquoise" -> "DarkViolet"
      [] self = "DarkViolet" -> "DeepPink"
      [] self = "DeepPink" -> "DeepSkyBlue"
      [] self = "DeepSkyBlue" -> "DimGray"
      [] self = "DimGray" -> "DimGrey"
      [] self = "DimGrey" -> "DodgerBlue"
      [] self = "DodgerBlue" -> "Firebrick"
      [] self = "Firebrick" -> "FloralWhite"
      [] self = "FloralWhite" -> "ForestGreen"
      [] self = "ForestGreen" -> "Fuschia"
      [] self = "Fuschia" -> "Gainsboro"
      [] self = "Gainsboro" -> "GhostWhite"
      [] self = "GhostWhite" -> "Gold"
      [] self = "Gold" -> "GoldenRod"
      [] self = "GoldenRod" -> "Gray"
      [] self = "Gray" -> "Green"
      [] self = "Green" -> "GreenYellow"
      [] self = "GreenYellow" -> "Grey"
      [] self = "Grey" -> "Honeydew"
      [] self = "Honeydew" -> "HotPink"
      [] self = "HotPink" -> "IndianRed"
      [] self = "IndianRed" -> "Indigo"
      [] self = "Indigo" -> "Ivory"
      [] self = "Ivory" -> "Khaki"
      [] self = "Khaki" -> "Lavender"
      [] self = "Lavender" -> "LavenderBlush"
      [] self = "LavenderBlush" -> "LawnGreen"
      [] self = "LawnGreen" -> "LemonChiffon"
      [] self = "LemonChiffon" -> "LightBlue"
      [] self = "LightBlue" -> "LightCoral"
      [] self = "LightCoral" -> "LightCyan"
      [] self = "LightCyan" -> "LightGoldenRodYellow"
      [] self = "LightGoldenRodYellow" -> "LightGray"
      [] self = "LightGray" -> "LightGreen"
      [] self = "LightGreen" -> "LightGrey"
      [] self = "LightGrey" -> "LightPink"
      [] self = "LightPink" -> "LightSalmon"
      [] self = "LightSalmon" -> "LightSeaGreen"
      [] self = "LightSeaGreen" -> "LightSkyBlue"
      [] self = "LightSkyBlue" -> "LightSlateGray"
      [] self = "LightSlateGray" -> "LightSteelBlue"
      [] self = "LightSteelBlue" -> "LightYellow"
      [] self = "LightYellow" -> "Lime"
      [] self = "Lime" -> "LimeGreen"
      [] self = "LimeGreen" -> "Linen"
      [] self = "Linen" -> "Magenta"
      [] self = "Magenta" -> "Maroon"
      [] self = "Maroon" -> "MediumAquaMarine"
      [] self = "MediumAquaMarine" -> "MediumBlue"
      [] self = "MediumBlue" -> "MediumOrchid"
      [] self = "MediumOrchid" -> "MediumPurple"
      [] self = "MediumPurple" -> "MediumSeaGreen"
      [] self = "MediumSeaGreen" -> "MediumSlateBlue"
      [] self = "MediumSlateBlue" -> "MediumSpringGreen"
      [] self = "MediumSpringGreen" -> "MediumTurquoise"
      [] self = "MediumTurquoise" -> "MediumVioletRed"
      [] self = "MediumVioletRed" -> "MidnightBlue"
      [] self = "MidnightBlue" -> "MintCream"
      [] self = "MintCream" -> "MistyRose"
      [] self = "MistyRose" -> "Moccasin"
      [] self = "Moccasin" -> "NavajoWhite"
      [] self = "NavajoWhite" -> "Navy"
      [] self = "Navy" -> "OldLace"
      [] self = "OldLace" -> "Olive"
      [] self = "Olive" -> "OliveDrab"
      [] self = "OliveDrab" -> "Orange"
      [] self = "Orange" -> "OrangeRed"
      [] self = "OrangeRed" -> "Orchid"
      [] self = "Orchid" -> "PaleGoldenRod"
      [] self = "PaleGoldenRod" -> "PaleGreen"
      [] self = "PaleGreen" -> "PaleTurquoise"
      [] self = "PaleTurquoise" -> "PaleVioletRed"
      [] self = "PaleVioletRed" -> "PapayaWhip"
      [] self = "PapayaWhip" -> "PeachPuff"
      [] self = "PeachPuff" -> "Peru"
      [] self = "Peru" -> "Pink"
      [] self = "Pink" -> "Plum"
      [] self = "Plum" -> "PowderBlue"
      [] self = "PowderBlue" -> "Purple"
      [] self = "Purple" -> "Red"
      [] self = "Red" -> "RosyBrown"
      [] self = "RosyBrown" -> "RoyalBlue"
      [] self = "RoyalBlue" -> "SaddleBrown"
      [] self = "SaddleBrown" -> "Salmon"
      [] self = "Salmon" -> "SandyBrown"
      [] self = "SandyBrown" -> "SeaGreen"
      [] self = "SeaGreen" -> "SeaShell"
      [] self = "SeaShell" -> "Sienna"
      [] self = "Sienna" -> "Silver"
      [] self = "Silver" -> "SkyBlue"
      [] self = "SkyBlue" -> "SlateBlue"
      [] self = "SlateBlue" -> "SlateGray"
      [] self = "SlateGray" -> "Snow"
      [] self = "Snow" -> "SpringGreen"
      [] self = "SpringGreen" -> "SteelBlue"
      [] self = "SteelBlue" -> "Tan"
      [] self = "Tan" -> "Teal"
      [] self = "Teal" -> "Thistle"
      [] self = "Thistle" -> "Tomato"
      [] self = "Tomato" -> "Turquoise"
      [] self = "Turquoise" -> "Violet"
      [] self = "Violet" -> "Wheat"
      [] self = "Wheat" -> "White"
      [] self = "White" -> "WhiteSmoke"
      [] self = "WhiteSmoke" -> "Yellow"
      [] self = "Yellow" -> "YellowGreen"
      [] self = "YellowGreen" -> "AliceBlue"

\* a successor table in which Yellow wraps to AliceBlue, skipping YellowGreen
Colors_nextSkip(self) ==
    IF self = "Yellow" THEN "AliceBlue" ELSE NextArms(self)

\* Colors::next
Colors_next(self) == NextArms(self)

\* the arms of `match self` in Colors::name
NameArms(self) ==
    CASE self = "Maroon" -> "Maroon"
      [] self = "DarkRed" -> "DarkRed"
      [] self = "Brown" -> "Brown"
      [] self = "Firebrick" -> "Firebrick"
      [] self = "Crimson" -> "Crimson"
      [] self = "Red" -> "Red"
      [] self = "Tomato" -> "Tomato"
      [] self = "Coral" -> "Coral"
      [] self = "IndianRed" -> "IndianRed"
      [] self = "LightCoral" -> "LightCoral"
      [] self = "DarkSalmon" -> "DarkSalmon"
      [] self = "Salmon" -> "Salmon"
      [] self = "LightSalmon" -> "LightSalmon"
      [] self = "OrangeRed" -> "OrangeRed"
      [] self = "DarkOrange" -> "DarkOrange"
      [] self = "Orange" -> "Orange"
      [] self = "Gold" -> "Gold"
      [] self = "DarkGoldenRod" -> "DarkGoldenRod"
      [] self = "GoldenRod" -> "GoldenRod"
      [] self = "PaleGoldenRod" -> "PaleGoldenRod"
      [] self = "DarkKhaki" -> "DarkKhaki"
      [] self = "Khaki" -> "Khaki"
      [] self = "Olive" -> "Olive"
      [] self = "Yellow" -> "Yellow"
      [] self = "YellowGreen" -> "YellowGreen"
      [] self = "DarkOliveGreen" -> "DarkOliveGreen"
      [] self = "OliveDrab" -> "OliveDrab"
      [] self = "LawnGreen" -> "LawnGreen"
      [] self = "Chartreuse" -> "Chartreuse"
      [] self = "GreenYellow" -> "GreenYellow"
      [] self = "DarkGreen" -> "DarkGreen"
      [] self = "Green" -> "Green"
      [] self = "ForestGreen" -> "ForestGreen"
      [] self = "Lime" -> "Lime"
      [] self = "LimeGreen" -> "LimeGreen"
      [] self = "LightGreen" -> "LightGreen"
      [] self = "PaleGreen" -> "PaleGreen"
      [] self = "DarkSeaGreen" -> "DarkSeaGreen"
      [] self = "MediumSpringGreen" -> "MediumSpringGreen"
      [] self = "SpringGreen" -> "SpringGreen"
      [] self = "SeaGreen" -> "SeaGreen"
      [] self = "MediumAquaMarine" -> "MediumAquaMarine"
      [] self = "MediumSeaGreen" -> "MediumSeaGreen"
      [] self = "LightSeaGreen" -> "LightSeaGreen"
      [] self = "DarkSlateGray" -> "DarkSlateGray"
      [] self = "Teal" -> "Teal"
      [] self = "DarkCyan" -> "DarkCyan"
      [] self = "Aqua" -> "Aqua"
      [] self = "Cyan" -> "Cyan"
      [] self = "LightCyan" -> "LightCyan"
      [] self = "DarkTurquoise" -> "DarkTurquoise"
      [] self = "Turquoise" -> "Turquoise"
      [] self = "MediumTurquoise" -> "MediumTurquoise"
      [] self = "PaleTurquoise" -> "PaleTurquoise"
      [] self = "AquaMarine" -> "AquaMarine"
      [] self = "PowderBlue" -> "PowderBlue"
      [] self = "CadetBlue" -> "CadetBlue"
      [] self = "SteelBlue" -> "SteelBlue"
      [] self = "CornFlowerBlue" -> "CornFlowerBlue"
      [] self = "DeepSkyBlue" -> "DeepSkyBlue"
      [] self = "DodgerBlue" -> "DodgerBlue"
      [] self = "LightBlue" -> "LightBlue"
      [] self = "SkyBlue" -> "SkyBlue"
      [] self = "LightSkyBlue" -> "LightSkyBlue"
      [] self = "MidnightBlue" -> "MidnightBlue"
      [] self = "Navy" -> "Navy"
      [] self = "DarkBlue" -> "DarkBlue"
      [] self = "MediumBlue" -> "MediumBlue"
      [] self = "Blue" -> "Blue"
      [] self = "RoyalBlue" -> "RoyalBlue"
      [] self = "BlueViolet" -> "BlueViolet"
      [] self = "Indigo" -> "Indigo"
      [] self = "DarkSlateBlue" -> "DarkSlateBlue"
      [] self = "SlateBlue" -> "SlateBlue"
      [] self = "MediumSlateBlue" -> "MediumSlateBlue"
      [] self = "MediumPurple" -> "MediumPurple"
      [] self = "DarkMagenta" -> "DarkMagenta"
      [] self = "DarkViolet" -> "DarkViolet"
      [] self = "DarkOrchid" -> "DarkOrchid"
      [] self = "MediumOrchid" -> "MediumOrchid"
      [] self = "Purple" -> "Purple"
      [] self = "Thistle" -> "Thistle"
      [] self = "Plum" -> "Plum"
      [] self = "Violet" -> "Violet"
      [] self = "Magenta" -> "Magenta"
      [] self = "Fuschia" -> "Fuschia"
      [] self = "Orchid" -> "Orchid"
      [] self = "MediumVioletRed" -> "MediumVioletRed"
      [] self = "PaleVioletRed" -> "PaleVioletRed"
      [] self = "DeepPink" -> "DeepPink"
      [] self = "HotPink" -> "HotPink"
      [] self = "LightPink" -> "LightPink"
      [] self = "Pink" -> "Pink"
      [] self = "AntiqueWhite" -> "AntiqueWhite"
      [] self = "Beige" -> "Beige"
      [] self = "Bisque" -> "Bisque"
      [] self = "BlanchedAlmond" -> "BlanchedAlmond"
      [] self = "Wheat" -> "Wheat"
      [] self = "CornSilk" -> "CornSilk"
      [] self = "LemonChiffon" -> "LemonChiffon"
      [] self = "LightGoldenRodYellow" -> "LightGoldenRodYellow"
      [] self = "LightYellow" -> "LightYellow"
      [] self = "SaddleBrown" -> "SaddleBrown"
      [] self = "Sienna" -> "Sienna"
      [] self = "Chocolate" -> "Chocolate"
      [] self = "Peru" -> "Peru"
      [] self = "SandyBrown" -> "SandyBrown"
      [] self = "BurlyWood" -> "BurlyWood"
      [] self = "Tan" -> "Tan"
      [] self = "RosyBrown" -> "RosyBrown"
      [] self = "Moccasin" -> "Moccasin"
      [] self = "NavajoWhite" -> "NavajoWhite"
      [] self = "PeachPuff" -> "PeachPuff"
      [] self = "MistyRose" -> "MistyRose"
      [] self = "LavenderBlush" -> "LavenderBlush"
      [] self = "Linen" -> "Linen"
      [] self = "OldLace" -> "OldLace"
      [] self = "PapayaWhip" -> "PapayaWhip"
      [] self = "SeaShell" -> "SeaShell"
      [] self = "MintCream" -> "MintCream"
      [] self = "SlateGray" -> "SlateGray"
      [] self = "LightSlateGray" -> "LightSlateGray"
      [] self = "LightSteelBlue" -> "LightSteelBlue"
      [] self = "Lavender" -> "Lavender"
      [] self = "FloralWhite" -> "FloralWhite"
      [] self = "AliceBlue" -> "AliceBlue"
      [] self = "GhostWhite" -> "GhostWhite"
      [] self = "Honeydew" -> "Honeydew"
      [] self = "Ivory" -> "Ivory"
      [] self = "Azure" -> "Azure"
      [] self = "Snow" -> "Snow"
      [] self = "Black" -> "Black"
      [] self = "DimGray" -> "DimGray"
      [] self = "DimGrey" -> "DimGrey"
      [] self = "Gray" -> "Gray"
      [] self = "Grey" -> "Grey"
      [] self = "DarkGray" -> "DarkGray"
      [] self = "DarkGrey" -> "DarkGrey"
      [] self = "Silver" -> "Silver"
      [] self = "LightGray" -> "LightGray"
      [] self = "LightGrey" -> "LightGrey"
      [] self = "Gainsboro" -> "Gainsboro"
      [] self = "WhiteSmoke" -> "WhiteSmoke"
      [] self = "White" -> "White"

\* a name table in which Grey is spelled as Gray is
Colors_nameTypo(self) ==
    IF self = "Grey" THEN "Gray" ELSE NameArms(self)

\* Colors::name
Colors_name(self) == NameArms(self)

\* the arms of `match self` in Colors::rgb
Colors_rgb(self) ==
    CASE self = "Maroon" -> <<128, 0, 0>>
      [] self = "DarkRed" -> <<139, 0, 0>>
      [] self = "Brown" -> <<165, 42, 42>>
      [] self = "Firebrick" -> <<178, 34, 34>>
      [] self = "Crimson" -> <<220, 20, 60>>
      [] self = "Red" -> <<255, 0, 0>>
      [] self = "Tomato" -> <<255, 99, 71>>
      [] self = "Coral" -> <<255, 127, 80>>
      [] self = "IndianRed" -> <<205, 92, 92>>
      [] self = "LightCoral" -> <<240, 128, 128>>
      [] self = "DarkSalmon" -> <<233, 150, 122>>
      [] self = "Salmon" -> <<250, 128, 114>>
      [] self = "LightSalmon" -> <<255, 160, 122>>
      [] self = "OrangeRed" -> <<255, 69, 0>>
      [] self = "DarkOrange" -> <<255, 140, 0>>
      [] self = "Orange" -> <<255, 165, 0>>
      [] self = "Gold" -> <<255, 215, 0>>
      [] self = "DarkGoldenRod" -> <<184, 134, 11>>
      [] self = "GoldenRod" -> <<218, 165, 32>>
      [] self = "PaleGoldenRod" -> <<238, 232, 170>>
      [] self = "DarkKhaki" -> <<189, 183, 107>>
      [] self = "Khaki" -> <<240, 230, 140>>
      [] self = "Olive" -> <<128, 128, 0>>
      [] self = "Yellow" -> <<255, 255, 0>>
      [] self = "YellowGreen" -> <<154, 205, 50>>
      [] self = "DarkOliveGreen" -> <<85, 107, 47>>
      [] self = "OliveDrab" -> <<107, 142, 35>>
      [] self = "LawnGreen" -> <<124, 252, 0>>
      [] self = "Chartreuse" -> <<127, 255, 0>>
      [] self = "GreenYellow" -> <<173, 255, 47>>
      [] self = "DarkGreen" -> <<0, 100, 0>>
      [] self = "Green" -> <<0, 128, 0>>
      [] self = "ForestGreen" -> <<34, 139, 34>>
      [] self = "Lime" -> <<0, 255, 0>>
      [] self = "LimeGreen" -> <<50, 205, 50>>
      [] self = "LightGreen" -> <<144, 238, 144>>
      [] self = "PaleGreen" -> <<152, 251, 152>>
      [] self = "DarkSeaGreen" -> <<143, 188, 143>>
      [] self = "MediumSpringGreen" -> <<0, 250, 154>>
      [] self = "SpringGreen" -> <<0, 255, 127>>
      [] self = "SeaGreen" -> <<46, 139, 87>>
      [] self = "MediumAquaMarine" -> <<102, 205, 170>>
      [] self = "MediumSeaGreen" -> <<60, 179, 113>>
      [] self = "LightSeaGreen" -> <<32, 178, 170>>
      [] self = "DarkSlateGray" -> <<47, 79, 79>>
      [] self = "Teal" -> <<0, 128, 128>>
      [] self = "DarkCyan" -> <<0, 139, 139>>
      [] self = "Aqua" -> <<0, 255, 255>>
      [] self = "Cyan" -> <<0, 255, 255>>
      [] self = "LightCyan" -> <<224, 255, 255>>
      [] self = "DarkTurquoise" -> <<0, 206, 209>>
      [] self = "Turquoise" -> <<64, 224, 208>>
      [] self = "MediumTurquoise" -> <<72, 209, 204>>
      [] self = "PaleTurquoise" -> <<175, 238, 238>>
      [] self = "AquaMarine" -> <<127, 255, 212>>
      [] self = "PowderBlue" -> <<176, 224, 230>>
      [] self = "CadetBlue" -> <<95, 158, 160>>
      [] self = "SteelBlue" -> <<70, 130, 180>>
      [] self = "CornFlowerBlue" -> <<100, 149, 237>>
      [] self = "DeepSkyBlue" -> <<0, 191, 255>>
      [] self = "DodgerBlue" -> <<30, 144, 255>>
      [] self = "LightBlue" -> <<173, 216, 230>>
      [] self = "SkyBlue" -> <<135, 206, 235>>
      [] self = "LightSkyBlue" -> <<135, 206, 250>>
      [] self = "MidnightBlue" -> <<25, 25, 112>>
      [] self = "Navy" -> <<0, 0, 128>>
      [] self = "DarkBlue" -> <<0, 0, 139>>
      [] self = "MediumBlue" -> <<0, 0, 205>>
      [] self = "Blue" -> <<0, 0, 255>>
      [] self = "RoyalBlue" -> <<65, 105, 225>>
      [] self = "BlueViolet" -> <<138, 43, 226>>
      [] self = "Indigo" -> <<75, 0, 130>>
      [] self = "DarkSlateBlue" -> <<72, 61, 139>>
      [] self = "SlateBlue" -> <<106, 90, 205>>
      [] self = "MediumSlateBlue" -> <<123, 104, 238>>
      [] self = "MediumPurple" -> <<147, 112, 219>>
      [] self = "DarkMagenta" -> <<139, 0, 139>>
      [] self = "DarkViolet" -> <<148, 0, 211>>
      [] self = "DarkOrchid" -> <<153, 50, 204>>
      [] self = "MediumOrchid" -> <<186, 85, 211>>
      [] self = "Purple" -> <<128, 0, 128>>
      [] self = "Thistle" -> <<216, 191, 216>>
      [] self = "Plum" -> <<221, 160, 221>>
      [] self = "Violet" -> <<238, 130, 238>>
      [] self = "Magenta" -> <<255, 0, 255>>
      [] self = "Fuschia" -> <<255, 0, 255>>
      [] self = "Orchid" -> <<218, 112, 214>>
      [] self = "MediumVioletRed" -> <<199, 21, 133>>
      [] self = "PaleVioletRed" -> <<219, 112, 147>>
      [] self = "DeepPink" -> <<255, 20, 147>>
      [] self = "HotPink" -> <<255, 105, 180>>
      [] self = "LightPink" -> <<255, 182, 193>>
      [] self = "Pink" -> <<255, 192, 203>>
      [] self = "AntiqueWhite" -> <<250, 235, 215>>
      [] self = "Beige" -> <<245, 245, 220>>
      [] self = "Bisque" -> <<255, 228, 196>>
      [] self = "BlanchedAlmond" -> <<255, 235, 205>>
      [] self = "Wheat" -> <<245, 222, 179>>
      [] self = "CornSilk" -> <<255, 248, 220>>
      [] self = "LemonChiffon" -> <<255, 250, 205>>
      [] self = "LightGoldenRodYellow" -> <<250, 250, 210>>
      [] self = "LightYellow" -> <<255, 255, 224>>
      [] self = "SaddleBrown" -> <<139, 69, 19>>
      [] self = "Sienna" -> <<160, 82, 45>>
      [] self = "Chocolate" -> <<210, 105, 30>>
      [] self = "Peru" -> <<205, 133, 63>>
      [] self = "SandyBrown" -> <<244, 164, 96>>
      [] self = "BurlyWood" -> <<222, 184, 135>>
      [] self = "Tan" -> <<210, 180, 140>>
      [] self = "RosyBrown" -> <<188, 143, 143>>
      [] self = "Moccasin" -> <<255, 228, 181>>
      [] self = "NavajoWhite" -> <<255, 222, 173>>
      [] self = "PeachPuff" -> <<255, 218, 185>>
      [] self = "MistyRose" -> <<255, 228, 225>>
      [] self = "LavenderBlush" -> <<255, 240, 245>>
      [] self = "Linen" -> <<250, 240, 230>>
      [] self = "OldLace" -> <<253, 245, 230>>
      [] self = "PapayaWhip" -> <<255, 239, 213>>
      [] self = "SeaShell" -> <<255, 245, 238>>
      [] self = "MintCream" -> <<245, 255, 250>>
      [] self = "SlateGray" -> <<112, 128, 144>>
      [] self = "LightSlateGray" -> <<119, 136, 153>>
      [] self = "LightSteelBlue" -> <<176, 196, 222>>
      [] self = "Lavender" -> <<230, 230, 250>>
      [] self = "FloralWhite" -> <<255, 250, 240>>
      [] self = "AliceBlue" -> <<240, 248, 255>>
      [] self = "GhostWhite" -> <<248, 248, 255>>
      [] self = "Honeydew" -> <<240, 255, 240>>
      [] self = "Ivory" -> <<255, 255, 240>>
      [] self = "Azure" -> <<240, 255, 255>>
      [] self = "Snow" -> <<255, 250, 250>>
      [] self = "Black" -> <<0, 0, 0>>
      [] self = "DimGray" -> <<105, 105, 105>>
      [] self = "DimGrey" -> <<105, 105, 105>>
      [] self = "Gray" -> <<128, 128, 128>>
      [] self = "Grey" -> <<128, 128, 128>>
      [] self = "DarkGray" -> <<169, 169, 169>>
      [] self = "DarkGrey" -> <<169, 169, 169>>
      [] self = "Silver" -> <<192, 192, 192>>
      [] self = "LightGray" -> <<211, 211, 211>>
      [] self = "LightGrey" -> <<211, 211, 211>>
      [] self = "Gainsboro" -> <<220, 220, 220>>
      [] self = "WhiteSmoke" -> <<245, 245, 245>>
      [] self = "White" -> <<255, 255, 255>>

----------------------------------------------------------------------------
(* The hexadecimal round: a string is parsed, the colour is formatted *)

Strings(alphabet, n) == UNION {[1..k -> alphabet] : k \in 0..n}

Hashes(n) == [i \in 1..n |-> "#"]

HexInputs ==
    {Hashes(h) \o body : h \in 0..MaxHashes, body \in Strings(HexAlphabet, MaxDigits)}

InitHex ==
    /\ hexIn \in HexInputs
    /\ hexOut = None
    /\ hexStr = None
    /\ colorIn = <<0, 0, 0>>
    \* the rest of the crate is untouched
    /\ walkStart = "AliceBlue"
    /\ walkCur = "AliceBlue"
    /\ walkSteps = 0
    /\ walkSeen = {}
    /\ iterStart = "AliceBlue"
    /\ current = Some("AliceBlue")
    /\ yielded = <<>>
    /\ nones = 0
    /\ member = "AliceBlue"
    /\ nameOf = None
    /\ rgbOf = None
    /\ text = [kind |-> "str", str |-> <<>>, num |-> 0]
    /\ style = [kind |-> "Ansi", val |-> [fg |-> None, bg |-> None, flags |-> {}]]
    /\ base = [kind |-> "new", color |-> <<>>, entry |-> ""]
    /\ origin = [fg |-> None, bg |-> None, flags |-> {}]
    /\ hist = <<>>
    /\ styled = None
    /\ conversions = 0

FromHex ==
    /\ hexOut = None
    /\ hexOut' = from_hex(hexIn)
    /\ UNCHANGED <<hexIn, hexStr>>

AsHex ==
    /\ hexOut.tag = "Ok"
    /\ hexStr = None
    /\ hexStr' = Ok(as_hex(hexOut.val))
    /\ UNCHANGED <<hexIn, hexOut>>


----------------------------------------------------------------------------
(* The colour round: a colour is formatted, the string is parsed back *)

U8 == 0..U8Max

\* channel values around the one-digit and two-digit boundaries
EdgeChannels == {0, 9, 10, 15, 16, 255}

\* the colours with at most one channel outside EdgeChannels
RgbInputs ==
    (U8 \X EdgeChannels \X EdgeChannels)
    \cup (EdgeChannels \X U8 \X EdgeChannels)
    \cup (EdgeChannels \X EdgeChannels \X U8)

InitRgb ==
    /\ \E c \in RgbInputs : colorIn = from_rgb(c[1], c[2], c[3])
    /\ hexIn = <<>>
    /\ hexOut = None
    /\ hexStr = None
    \* the rest of the crate is untouched
    /\ walkStart = "AliceBlue"
    /\ walkCur = "AliceBlue"
    /\ walkSteps = 0
    /\ walkSeen = {}
    /\ iterStart = "AliceBlue"
    /\ current = Some("AliceBlue")
    /\ yielded = <<>>
    /\ nones = 0
    /\ member = "AliceBlue"
    /\ nameOf = None
    /\ rgbOf = None
    /\ text = [kind |-> "str", str |-> <<>>, num |-> 0]
    /\ style = [kind |-> "Ansi", val |-> [fg |-> None, bg |-> None, flags |-> {}]]
    /\ base = [kind |-> "new", color |-> <<>>, entry |-> ""]
    /\ origin = [fg |-> None, bg |-> None, flags |-> {}]
    /\ hist = <<>>
    /\ styled = None
    /\ conversions = 0

\* colorIn.as_hex()
FormatColor ==
    /\ hexStr = None
    /\ hexStr' = Ok(as_hex(colorIn))
    /\ UNCHANGED <<hexIn, hexOut, colorIn>>

\* Color::from_hex(colorIn.as_hex())
ParseBack ==
    /\ hexStr.tag = "Ok"
    /\ hexOut = None
    /\ hexIn' = hexStr.val
    /\ hexOut' = from_hex(hexStr.val)
    /\ UNCHANGED <<hexStr, colorIn>>

----------------------------------------------------------------------------
(* A chain of Colors::next calls *)

InitWalk ==
    /\ walkStart \in Colors
    /\ walkCur = walkStart
    /\ walkSteps = 0
    /\ walkSeen = {}
    \* the rest of the crate is untouched
    /\ hexIn = <<>>
    /\ hexOut = None
    /\ hexStr = None
    /\ colorIn = <<0, 0, 0>>
    /\ iterStart = "AliceBlue"
    /\ current = Some("AliceBlue")
    /\ yielded = <<>>
    /\ nones = 0
    /\ member = "AliceBlue"
    /\ nameOf = None
    /\ rgbOf = None
    /\ text = [kind |-> "str", str |-> <<>>, num |-> 0]
    /\ style = [kind |-> "Ansi", val |-> [fg |-> None, bg |-> None, flags |-> {}]]
    /\ base = [kind |-> "new", color |-> <<>>, entry |-> ""]
    /\ origin = [fg |-> None, bg |-> None, flags |-> {}]
    /\ hist = <<>>
    /\ styled = None
    /\ conversions = 0

Step ==
    /\ walkSteps < MaxSteps
    /\ walkCur' = Colors_next(walkCur)
    /\ walkSteps' = walkSteps + 1
    /\ walkSeen' = walkSeen \cup {Colors_next(walkCur)}
    /\ UNCHANGED walkStart

----------------------------------------------------------------------------
(* The name and the RGB triple of a palette entry *)

InitPalette ==
    /\ member \in Colors
    /\ nameOf = None
    /\ rgbOf = None
    \* the rest of the crate is untouched
    /\ hexIn = <<>>
    /\ hexOut = None
    /\ hexStr = None
    /\ colorIn = <<0, 0, 0>>
    /\ walkStart = "AliceBlue"
    /\ walkCur = "AliceBlue"
    /\ walkSteps = 0
    /\ walkSeen = {}
    /\ iterStart = "AliceBlue"
    /\ current = Some("AliceBlue")
    /\ yielded = <<>>
    /\ nones = 0
    /\ text = [kind |-> "str", str |-> <<>>, num |-> 0]
    /\ style = [kind |-> "Ansi", val |-> [fg |-> None, bg |-> None, flags |-> {}]]
    /\ base = [kind |-> "new", color |-> <<>>, entry |-> ""]
    /\ origin = [fg |-> None, bg |-> None, flags |-> {}]
    /\ hist = <<>>
    /\ styled = None
    /\ conversions = 0

\* member.name()
Name ==
    /\ nameOf = None
    /\ nameOf' = Some(Colors_name(member))
    /\ UNCHANGED <<member, rgbOf>>

\* member.rgb()
Rgb ==
    /\ rgbOf = None
    /\ rgbOf' = Some(Colors_rgb(member))
    /\ UNCHANGED <<member, nameOf>>

----------------------------------------------------------------------------
(* ColorsIter *)

FIRST == "AliceBlue"
LAST == "YellowGreen"

\* ColorsIter::starting_with / Colors::into_iter
starting_with(color) == Some(color)

\* the closure with the entry itself, not its successor, compared to FIRST
AdvanceTestsSelf(c) ==
    IF c = FIRST THEN None ELSE Some(Colors_next(c))

\* the closure of and_then in ColorsIter::next
Advance(c) ==
    IF Colors_next(c) = FIRST THEN None ELSE Some(Colors_next(c))

InitIter ==
    /\ iterStart \in Colors
    /\ current = starting_with(iterStart)
    /\ yielded = <<>>
    /\ nones = 0
    /\ member = "AliceBlue"
    /\ nameOf = None
    /\ rgbOf = None
    \* the rest of the crate is untouched
    /\ hexIn = <<>>
    /\ hexOut = None
    /\ hexStr = None
    /\ colorIn = <<0, 0, 0>>
    /\ walkStart = "AliceBlue"
    /\ walkCur = "AliceBlue"
    /\ walkSteps = 0
    /\ walkSeen = {}
    /\ text = [kind |-> "str", str |-> <<>>, num |-> 0]
    /\ style = [kind |-> "Ansi", val |-> [fg |-> None, bg |-> None, flags |-> {}]]
    /\ base = [kind |-> "new", color |-> <<>>, entry |-> ""]
    /\ origin = [fg |-> None, bg |-> None, flags |-> {}]
    /\ hist = <<>>
    /\ styled = None
    /\ conversions = 0

\* Iterator::next for ColorsIter
ColorsIter_next ==
    /\ current.tag = "None" => nones < MaxNones
    /\ current' = IF current.tag = "Some" THEN Advance(current.val) ELSE None
    /\ yielded' = IF current.tag = "Some" THEN Append(yielded, current.val) ELSE yielded
    /\ nones' = IF current.tag = "Some" THEN nones ELSE nones + 1
    /\ UNCHANGED iterStart

----------------------------------------------------------------------------
(* Ansi: the style descriptor *)

ESC == "ESC"

\* struct Ansi { fg, bg, flags }
Ansi(fg, bg, flags) == [fg |-> fg, bg |-> bg, flags |-> flags]

\* Ansi::new()
Ansi_new == Ansi(None, None, {})

\* Color::into_ansi
Color_into_ansi(self) == Ansi(Some(self), None, {})

\* Colors::into_color
into_color(self) ==
    from_rgb(Colors_rgb(self)[1], Colors_rgb(self)[2], Colors_rgb(self)[3])

\* the conversion with the colour stored as background
Colors_into_ansiBg(self) == Ansi(None, Some(into_color(self)), {})

\* impl IntoAnsi for Colors
Colors_into_ansi(self) == Ansi(Some(into_color(self)), None, {})

\* the builder methods
Ansi_fg(a, c) == [a EXCEPT !.fg = Some(c)]
Ansi_bg(a, c) == [a EXCEPT !.bg = Some(c)]
Ansi_flag(a, f) == [a EXCEPT !.flags = @ \cup {f}]

is_default(a) == a.fg = None /\ a.bg = None /\ a.flags = {}

\* the attributes in the order they are serialized, and their SGR codes
Attributes == <<"bold", "italic", "underline", "strike">>
AttributeCode(f) ==
    CASE f = "bold" -> 1
      [] f = "italic" -> 3
      [] f = "underline" -> 4
      [] f = "strike" -> 9

DecDigits == <<"0", "1", "2", "3", "4", "5", "6", "7", "8", "9">>

\* the decimal form of a natural number
RECURSIVE Dec(_)
Dec(n) ==
    IF n < 10 THEN <<DecDigits[n + 1]>>
    ELSE Append(Dec(n \div 10), DecDigits[(n % 10) + 1])

\* the parameters joined by ';'
RECURSIVE Join(_)
Join(params) ==
    IF params = <<>> THEN <<>>
    ELSE IF Len(params) = 1 THEN Head(params)
    ELSE Head(params) \o <<";">> \o Join(Tail(params))

ColorParams(lead, c) == <<Dec(lead), Dec(2), Dec(c[1]), Dec(c[2]), Dec(c[3])>>

FlagParams(a) ==
    LET on == SelectSeq(Attributes, LAMBDA f : f \in a.flags)
    IN  [i \in 1..Len(on) |-> Dec(AttributeCode(on[i]))]

FgBgParams(a) ==
    (IF a.fg.tag = "Some" THEN ColorParams(38, a.fg.val) ELSE <<>>)
    \o (IF a.bg.tag = "Some" THEN ColorParams(48, a.bg.val) ELSE <<>>)

\* parameters in the order background, foreground, attributes
AnsiParamsColorsFirst(a) ==
    (IF a.bg.tag = "Some" THEN ColorParams(48, a.bg.val) ELSE <<>>)
    \o (IF a.fg.tag = "Some" THEN ColorParams(38, a.fg.val) ELSE <<>>)
    \o FlagParams(a)

\* the SGR parameter list: attributes, then foreground, then background
AnsiParams(a) == FlagParams(a) \o FgBgParams(a)

\* impl Display for Ansi
AnsiDisplay(a) == <<ESC, "[">> \o Join(AnsiParams(a)) \o <<"m">>

\* Ansi::reset()
Ansi_reset == <<ESC, "[", "0", "m">>

----------------------------------------------------------------------------
(* style_text *)

\* a displayable value: a string, or an integer
TextStr(s) == [kind |-> "str", str |-> s, num |-> 0]
TextInt(n) == [kind |-> "int", str |-> <<>>, num |-> n]

\* format!("{}", text)
Display(t) == IF t.kind = "int" THEN Dec(t.num) ELSE t.str

\* a style source: an Ansi, a closure returning an Ansi, or a palette entry
Source(kind, val) == [kind |-> kind, val |-> val]

\* IntoAnsi::into_ansi
into_ansi(s) ==
    IF s.kind = "Colors" THEN Colors_into_ansi(s.val) ELSE s.val

Rendered(out, n) == [out |-> out, conversions |-> n]

\* style_text without the reset suffix
style_textNoReset(t, s) ==
    IF Display(t) = <<>> THEN Rendered(Display(t), 0)
    ELSE IF is_default(into_ansi(s)) THEN Rendered(Display(t), 1)
    ELSE Rendered(AnsiDisplay(into_ansi(s)) \o Display(t), 1)

\* style_text without the test of is_default
style_textAlwaysWrap(t, s) ==
    IF Display(t) = <<>> THEN Rendered(Display(t), 0)
    ELSE Rendered(AnsiDisplay(into_ansi(s)) \o Display(t) \o Ansi_reset, 1)

\* style_text without the test of is_empty
style_textWrapEmpty(t, s) ==
    IF is_default(into_ansi(s)) THEN Rendered(Display(t), 1)
    ELSE Rendered(AnsiDisplay(into_ansi(s)) \o Display(t) \o Ansi_reset, 1)

\* style_text with the style converted before the text is looked at
style_textEager(t, s) ==
    LET ansi == into_ansi(s)
        actual == Display(t)
    IN  IF actual = <<>> THEN Rendered(actual, 1)
        ELSE IF is_default(ansi) THEN Rendered(actual, 1)
        ELSE Rendered(AnsiDisplay(ansi) \o Display(t) \o Ansi_reset, 1)

\* style_text: the String returned and the number of into_ansi calls made
style_text(t, s) ==
    LET actual == Display(t)
    IN  IF actual = <<>> THEN Rendered(actual, 0)
        ELSE LET ansi == into_ansi(s)
             IN  IF is_default(ansi) THEN Rendered(actual, 1)
                 ELSE Rendered(AnsiDisplay(ansi) \o Display(t) \o Ansi_reset, 1)

----------------------------------------------------------------------------
(* Building a style and rendering a text with it *)

TextAlphabet == {"x", "m"}
TextNumbers == {42}
Texts == {TextStr(s) : s \in Strings(TextAlphabet, MaxTextLen)} \cup {TextInt(n) : n \in TextNumbers}

FgColors == {<<255, 0, 0>>, <<100, 200, 100>>}
BgColors == {<<0, 0, 75>>}
\* the colours Color::into_ansi is called on
BaseColors == {<<255, 0, 0>>, <<0, 0, 0>>}

\* what the descriptor was made from: Ansi::new(), a Color, or a palette entry
Base(kind, color, entry) == [kind |-> kind, color |-> color, entry |-> entry]

Call(op, arg) == [op |-> op, arg |-> arg]

\* the descriptor after one builder call
Apply(a, call) ==
    CASE call.op = "fg" -> Ansi_fg(a, call.arg)
      [] call.op = "bg" -> Ansi_bg(a, call.arg)
      [] OTHER -> Ansi_flag(a, call.op)

InitStyle ==
    /\ text = TextStr(<<>>)
    /\ \/ /\ base = Base("new", <<>>, "")
          /\ style = Source("Ansi", Ansi_new)
       \/ \E c \in BaseColors :
            /\ base = Base("Color", c, "")
            /\ style = Source("Ansi", Color_into_ansi(c))
       \/ \E e \in Colors :
            /\ base = Base("Colors", <<>>, e)
            /\ style = Source("Colors", e)
    /\ origin = into_ansi(style)
    /\ hist = <<>>
    /\ styled = None
    /\ conversions = 0
    \* the rest of the crate is untouched
    /\ hexIn = <<>>
    /\ hexOut = None
    /\ hexStr = None
    /\ colorIn = <<0, 0, 0>>
    /\ walkStart = "AliceBlue"
    /\ walkCur = "AliceBlue"
    /\ walkSteps = 0
    /\ walkSeen = {}
    /\ iterStart = "AliceBlue"
    /\ current = Some("AliceBlue")
    /\ yielded = <<>>
    /\ nones = 0
    /\ member = "AliceBlue"
    /\ nameOf = None
    /\ rgbOf = None

Build(call) ==
    /\ style.kind = "Ansi"
    /\ styled = None
    /\ Len(hist) < MaxCalls
    /\ style' = Source("Ansi", Apply(style.val, call))
    /\ hist' = Append(hist, call)
    /\ UNCHANGED <<base, origin, text, styled, conversions>>

Fg == \E c \in FgColors : Build(Call("fg", c))
Bg == \E c \in BgColors : Build(Call("bg", c))
Bold == Build(Call("bold", <<>>))
Italic == Build(Call("italic", <<>>))
Underline == Build(Call("underline", <<>>))
Strike == Build(Call("strike", <<>>))

\* the caller wraps the descriptor in a zero-argument closure
Closure ==
    /\ style.kind = "Ansi"
    /\ styled = None
    /\ style' = Source("Fn", style.val)
    /\ UNCHANGED <<base, origin, hist, text, styled, conversions>>

StyleText ==
    /\ styled = None
    /\ \E t \in Texts :
         /\ text' = t
         /\ styled' = Ok(style_text(t, style).out)
         /\ conversions' = style_text(t, style).conversions
    /\ UNCHANGED <<base, origin, hist, style>>

----------------------------------------------------------------------------
(* Specifications *)

NextHex == (FromHex \/ AsHex) /\ UNCHANGED <<rgbVars, walkVars, iterVars, paletteVars, styleVars>>

SpecHex == InitHex /\ [][NextHex]_vars

NextRgb == (FormatColor \/ ParseBack) /\ UNCHANGED <<walkVars, iterVars, paletteVars, styleVars>>

SpecRgb == InitRgb /\ [][NextRgb]_vars

NextPalette ==
    (Name \/ Rgb) /\ UNCHANGED <<hexVars, rgbVars, walkVars, iterVars, styleVars>>

SpecPalette == InitPalette /\ [][NextPalette]_vars

NextWalk == Step /\ UNCHANGED <<hexVars, rgbVars, iterVars, paletteVars, styleVars>>

SpecWalk == InitWalk /\ [][NextWalk]_vars

NextIter == ColorsIter_next /\ UNCHANGED <<hexVars, rgbVars, walkVars, paletteVars, styleVars>>

SpecIter == InitIter /\ [][NextIter]_vars

NextStyle ==
    /\ Fg \/ Bg \/ Bold \/ Italic \/ Underline \/ Strike \/ Closure \/ StyleText
    /\ UNCHANGED <<hexVars, rgbVars, walkVars, iterVars, paletteVars>>

SpecStyle == InitStyle /\ [][NextStyle]_vars

----------------------------------------------------------------------------
(* Properties *)

Range(q) == {q[i] : i \in 1..Len(q)}

NumColors == Cardinality(Colors)

HexDigitChars ==
    {"0", "1", "2", "3", "4", "5", "6", "7", "8", "9",
     "a", "b", "c", "d", "e", "f", "A", "B", "C", "D", "E", "F"}

Lowercase(c) ==
    CASE c = "A" -> "a" [] c = "B" -> "b" [] c = "C" -> "c"
      [] c = "D" -> "d" [] c = "E" -> "e" [] c = "F" -> "f"
      [] OTHER -> c

ToLowercase(q) == [i \in 1..Len(q) |-> Lowercase(q[i])]

\* the characters left after one optional leading '#'
Digits == StripHash(hexIn)

AllHex(q) == \A i \in 1..Len(q) : q[i] \in HexDigitChars

Called == hexOut.tag # "None"

\* C1: style_text on a non-empty text with a non-default descriptor returns
\* the descriptor's escape sequence ESC '[' params 'm', then the text's
\* string form, then the reset sequence ESC '[' '0' 'm', and nothing else.
C1_PrefixTextReset ==
    (styled.tag = "Ok" /\ Display(text) # <<>> /\ ~is_default(into_ansi(style)))
    => styled.val = <<ESC, "[">> \o Join(AnsiParams(into_ansi(style))) \o <<"m">>
                    \o Display(text) \o <<ESC, "[", "0", "m">>

C1_Witness ==
    /\ styled.tag = "Ok"
    /\ text = TextStr(<<"x">>)
    /\ style.kind = "Ansi"
    /\ style.val = Ansi(Some(<<255, 0, 0>>), None, {"underline"})
    /\ styled.val = <<ESC, "[", "4", ";", "3", "8", ";", "2", ";", "2", "5", "5", ";",
                      "0", ";", "0", "m", "x", ESC, "[", "0", "m">>

\* C2: with a default descriptor, passed as an Ansi value or as a function
\* returning one, style_text returns the text's string form unchanged, with
\* no escape character in it.
C2_DefaultUnchanged ==
    (styled.tag = "Ok" /\ style.kind \in {"Ansi", "Fn"} /\ is_default(into_ansi(style)))
    => /\ styled.val = Display(text)
       /\ ESC \notin Range(styled.val)

C2_Witness ==
    /\ styled.tag = "Ok"
    /\ style.kind = "Fn"
    /\ style.val = Ansi_new
    /\ text = TextInt(42)
    /\ styled.val = <<"4", "2">>

\* C3: style_text on a text whose string form is empty returns the empty
\* string for every style source, non-default ones included.
C3_EmptyText ==
    (styled.tag = "Ok" /\ Display(text) = <<>>) => styled.val = <<>>

C3_Witness ==
    /\ styled.tag = "Ok"
    /\ Display(text) = <<>>
    /\ ~is_default(into_ansi(style))
    /\ Len(hist) = 2
    /\ styled.val = <<>>

\* C4: iterating from any palette entry s yields s first, each later
\* element is next() of the one before, every palette entry is yielded
\* exactly once, and the iteration ends just before s would come again.
C4_FullRound ==
    current.tag = "None"
    => /\ Len(yielded) = NumColors
       /\ yielded[1] = iterStart
       /\ \A i \in 1..(Len(yielded) - 1) : yielded[i + 1] = Colors_next(yielded[i])
       /\ Range(yielded) = Colors
       /\ Colors_next(yielded[Len(yielded)]) = iterStart

\* C5: Colors::next is total and a bijection on the palette that forms one
\* cycle: a chain of next() calls from any entry meets every other entry
\* exactly once and is back at its start after as many calls as there are
\* entries, not earlier.
C5_SingleCycle ==
    /\ Colors_next(walkCur) \in Colors
    /\ \A other \in Colors : Colors_next(other) = Colors_next(walkCur) => other = walkCur
    /\ walkSteps < NumColors
       => /\ walkStart \notin walkSeen
          /\ Cardinality(walkSeen) = walkSteps
    /\ walkSteps = NumColors
       => /\ walkCur = walkStart
          /\ walkSeen = Colors

C5_Witness ==
    /\ walkStart = "Maroon"
    /\ walkSteps = NumColors
    /\ walkCur = "Maroon"
    /\ walkSeen = Colors

\* C6: for six hexadecimal digits of any case, with or without one leading
\* '#', from_hex succeeds and as_hex of the colour is '#' followed by the
\* six digits in lowercase.
C6_RoundTrip ==
    (Len(Digits) = 6 /\ AllHex(Digits))
    => /\ Called => hexOut.tag = "Ok"
       /\ hexStr.tag = "Ok" => hexStr.val = <<"#">> \o ToLowercase(Digits)

C6_Witness ==
    /\ hexIn = <<"#", "F", "a", "0", "F", "0", "a">>
    /\ hexOut = Ok(<<250, 15, 10>>)
    /\ hexStr.tag = "Ok"
    /\ hexStr.val = <<"#", "f", "a", "0", "f", "0", "a">>

\* C7: when the number of characters left after one optional leading '#'
\* is neither 3 nor 6, from_hex returns Err(WrongLength).
C7_WrongLength ==
    (Called /\ Len(Digits) \notin {3, 6})
    => /\ hexOut.tag = "Err"
       /\ hexOut.err = "WrongLength"

\* C8: when 3 or 6 characters are left after one optional leading '#' and
\* one of them is not a hexadecimal digit, from_hex returns an error and
\* never a colour.
C8_BadCharRejected ==
    (Called /\ Len(Digits) \in {3, 6} /\ ~AllHex(Digits)) => hexOut.tag = "Err"

\* the three-digit form with every digit written twice
Expand(q) == <<q[1], q[1], q[2], q[2], q[3], q[3]>>

\* C9: for three hexadecimal digits xyz, with or without a leading '#',
\* from_hex succeeds and gives the colour of from_hex(xxyyzz).
C9_Expansion ==
    (Called /\ Len(Digits) = 3 /\ AllHex(Digits))
    => /\ hexOut.tag = "Ok"
       /\ hexOut = from_hex(Expand(Digits))
       /\ hexOut = from_hex(<<"#">> \o Expand(Digits))

C9_Witness ==
    /\ hexIn = <<"#", "F", "0", "a">>
    /\ hexOut = Ok(<<255, 0, 170>>)

\* the descriptor after the builder calls calls[i], calls[i + 1], ...
RECURSIVE ReplayFrom(_, _, _)
ReplayFrom(a, calls, i) ==
    IF i > Len(calls) THEN a ELSE ReplayFrom(Apply(a, calls[i]), calls, i + 1)

Replay(a, calls) == ReplayFrom(a, calls, 1)

\* the permutations of 1..n
Perms(n) == {p \in [1..n -> 1..n] : \A i, j \in 1..n : p[i] = p[j] => i = j}

Permute(calls, p) == [i \in 1..Len(calls) |-> calls[p[i]]]

\* the argument of the last call of op, if there is one
LastArg(calls, op) ==
    LET at == {i \in 1..Len(calls) : calls[i].op = op}
    IN  IF at = {} THEN None
        ELSE Some(calls[CHOOSE i \in at : \A j \in at : j <= i].arg)

SameFinal(a, b) ==
    /\ LastArg(a, "fg") = LastArg(b, "fg")
    /\ LastArg(a, "bg") = LastArg(b, "bg")

\* italic, underline, strike, foreground, background, in that order
FixedOrder(a) ==
    (IF "italic" \in a.flags THEN << <<"3">> >> ELSE <<>>)
    \o (IF "underline" \in a.flags THEN << <<"4">> >> ELSE <<>>)
    \o (IF "strike" \in a.flags THEN << <<"9">> >> ELSE <<>>)
    \o (IF a.fg.tag = "Some"
        THEN << <<"3", "8">>, <<"2">>, Dec(a.fg.val[1]), Dec(a.fg.val[2]), Dec(a.fg.val[3]) >>
        ELSE <<>>)
    \o (IF a.bg.tag = "Some"
        THEN << <<"4", "8">>, <<"2">>, Dec(a.bg.val[1]), Dec(a.bg.val[2]), Dec(a.bg.val[3]) >>
        ELSE <<>>)

\* C10: the escape sequence of a descriptor depends on its final contents
\* only: every order of the same builder calls that leaves the same
\* foreground and background gives the same string, and the parameters are
\* italic (3), underline (4), strike (9), foreground 38;2;r;g;b, background
\* 48;2;r;g;b, in that order, joined by ';' between ESC '[' and 'm'.
\* Stated of every descriptor the builder reaches; style_text leaves the
\* descriptor and its call sequence as they are, so the states after it add
\* no descriptor.
C10_OrderIndependent ==
    (style.kind \in {"Ansi", "Fn"} /\ styled.tag = "None")
    => /\ \A p \in Perms(Len(hist)) :
            LET reordered == Permute(hist, p)
            IN  SameFinal(reordered, hist)
                => AnsiDisplay(Replay(origin, reordered)) = AnsiDisplay(style.val)
       /\ "bold" \notin style.val.flags
          => AnsiDisplay(style.val) = <<ESC, "[">> \o Join(FixedOrder(style.val)) \o <<"m">>

C10_Witness ==
    /\ style.kind = "Ansi"
    /\ hist = <<Call("strike", <<>>), Call("bg", <<0, 0, 75>>), Call("italic", <<>>)>>
    /\ origin = Ansi_new
    /\ AnsiDisplay(style.val) = <<ESC, "[", "3", ";", "9", ";", "4", "8", ";", "2", ";",
                                  "0", ";", "0", ";", "7", "5", "m">>

\* the escape sequence of a foreground colour alone
FgOnly(c) ==
    <<ESC, "[", "3", "8", ";", "2", ";">> \o Dec(c[1]) \o <<";">> \o Dec(c[2])
    \o <<";">> \o Dec(c[3]) \o <<"m">>

BaseColor == IF base.kind = "Color" THEN base.color ELSE Colors_rgb(base.entry)

\* C11: Color::into_ansi and the conversion of a palette entry give a
\* descriptor with that colour (for an entry, its rgb()) as foreground, no
\* background and no attributes; it is never default, and style_text on a
\* non-empty text with it wraps the text, for Black (0,0,0) too.
C11_ColorIsForeground ==
    base.kind \in {"Color", "Colors"}
    => /\ origin.fg = Some(BaseColor)
       /\ origin.bg = None
       /\ origin.flags = {}
       /\ ~is_default(origin)
       /\ (hist = <<>> /\ styled.tag = "Ok" /\ Display(text) # <<>>)
          => styled.val = FgOnly(BaseColor) \o Display(text) \o <<ESC, "[", "0", "m">>

C11_Witness ==
    /\ base = Base("Colors", <<>>, "Black")
    /\ styled.tag = "Ok"
    /\ text = TextStr(<<"x">>)
    /\ styled.val = <<ESC, "[", "3", "8", ";", "2", ";", "0", ";", "0", ";", "0", "m",
                      "x", ESC, "[", "0", "m">>

\* C12: from_hex never returns ColorParseError::Unknown, for any input.
C12_NeverUnknown ==
    Called => ~(hexOut.tag = "Err" /\ hexOut.err = "Unknown")

ParseErrors == {"BadChars", "WrongLength", "ParseIntError", "Unknown"}

\* C13: from_hex is total: for every input (empty, only '#', several
\* leading '#', non-hexadecimal or non-ASCII characters, any length) it
\* returns Ok(colour) or Err(ColorParseError) and does not panic.
C13_Total ==
    Called
    => \/ /\ hexOut.tag = "Ok"
          /\ hexOut.val \in (0..U8Max) \X (0..U8Max) \X (0..U8Max)
       \/ /\ hexOut.tag = "Err"
          /\ hexOut.err \in ParseErrors

C13_Witness ==
    /\ hexIn = <<"#", "#", E_ACUTE>>
    /\ hexOut = Err("ParseIntError")

LowerHexChars ==
    {"0", "1", "2", "3", "4", "5", "6", "7", "8", "9", "a", "b", "c", "d", "e", "f"}

\* the value of a lowercase hexadecimal digit
HexValue(c) ==
    CASE c = "0" -> 0 [] c = "1" -> 1 [] c = "2" -> 2 [] c = "3" -> 3
      [] c = "4" -> 4 [] c = "5" -> 5 [] c = "6" -> 6 [] c = "7" -> 7
      [] c = "8" -> 8 [] c = "9" -> 9 [] c = "a" -> 10 [] c = "b" -> 11
      [] c = "c" -> 12 [] c = "d" -> 13 [] c = "e" -> 14 [] c = "f" -> 15

\* C14: for every Color c, as_hex() is '#' followed by six lowercase
\* hexadecimal digits, two zero-padded digits per channel in the order red,
\* green, blue, and from_hex(c.as_hex()) is Ok(c).
C14_FormatThenParse ==
    /\ hexStr.tag = "Ok"
       => /\ Len(hexStr.val) = 7
          /\ hexStr.val[1] = "#"
          /\ \A i \in 2..7 : hexStr.val[i] \in LowerHexChars
          /\ \A k \in 1..3 :
                16 * HexValue(hexStr.val[2 * k]) + HexValue(hexStr.val[2 * k + 1]) = colorIn[k]
    /\ Called
       => /\ hexOut.tag = "Ok"
          /\ hexOut.val = colorIn

C14_Witness ==
    /\ colorIn = <<0, 10, 171>>
    /\ hexStr.tag = "Ok"
    /\ hexStr.val = <<"#", "0", "0", "0", "a", "a", "b">>
    /\ hexOut.tag = "Ok"
    /\ hexOut.val = <<0, 10, 171>>

\* C15: from every palette entry, applying Colors::next exactly 150 times
\* returns to that entry.
C15_BackAfter150 ==
    walkSteps = 150 => walkCur = walkStart

\* C15, amended: from every palette entry, applying Colors::next exactly
\* 144 times, once per palette entry, returns to that entry.
C15_BackAfter144 ==
    walkSteps = 144 => walkCur = walkStart

C15_Witness ==
    /\ walkStart = "Black"
    /\ walkSteps = 144
    /\ walkCur = "Black"

\* the spellings of one colour: Aqua and Cyan, Magenta and Fuschia, and the
\* Gray and Grey spelling of each grey
SameColour ==
    {<<"Aqua", "Cyan">>, <<"Magenta", "Fuschia">>, <<"Gray", "Grey">>,
     <<"DimGray", "DimGrey">>, <<"DarkGray", "DarkGrey">>, <<"LightGray", "LightGrey">>}

\* C16: Colors::name gives every palette entry one name and no two entries
\* the same name, while entries may share an RGB triple: Aqua and Cyan,
\* Magenta and Fuschia, and each Gray and Grey spelling have equal triples.
C16_NamesDistinct ==
    /\ nameOf.tag = "Some"
       => \A other \in Colors : Colors_name(other) = nameOf.val => other = member
    /\ rgbOf.tag = "Some"
       => \A p \in SameColour :
            /\ member = p[1] => rgbOf.val = Colors_rgb(p[2])
            /\ member = p[2] => rgbOf.val = Colors_rgb(p[1])

C16_Witness ==
    /\ member = "Grey"
    /\ nameOf = Some("Grey")
    /\ rgbOf = Some(<<128, 128, 128>>)
    /\ Colors_rgb("Gray") = <<128, 128, 128>>

\* C17: style_text takes the text's string form before it touches the style
\* source, and does not convert the source when that string is empty: a
\* zero-argument producer passed as the style is called zero times for an
\* empty text and exactly once for a non-empty one.
C17_ProducerCalls ==
    styled.tag = "Ok"
    => conversions = IF Display(text) = <<>> THEN 0 ELSE 1

C17_Witness ==
    /\ styled.tag = "Ok"
    /\ style.kind = "Fn"
    /\ ~is_default(style.val)
    /\ Display(text) = <<>>
    /\ conversions = 0

Last(q) == q[Len(q)]

\* C18: a ColorsIter started at s yields s first and then successive
\* next() values; it ends exactly when the successor of the last yielded
\* entry is AliceBlue, so the last element is always YellowGreen; AliceBlue
\* is yielded only as the starting entry; after the first None every later
\* call returns None and yields nothing more.
C18_EndsBeforeFirst ==
    /\ yielded # <<>> => yielded[1] = iterStart
    /\ \A i \in 1..(Len(yielded) - 1) : yielded[i + 1] = Colors_next(yielded[i])
    /\ \A i \in 2..Len(yielded) : yielded[i] # "AliceBlue"
    /\ current.tag = "Some"
       => /\ yielded # <<>> => current.val = Colors_next(Last(yielded))
          /\ yielded = <<>> => current.val = iterStart
          /\ nones = 0
    /\ current.tag = "None"
       => /\ yielded # <<>>
          /\ Colors_next(Last(yielded)) = "AliceBlue"
          /\ Last(yielded) = "YellowGreen"

C18_Witness ==
    /\ iterStart = "Black"
    /\ current.tag = "None"
    /\ nones = MaxNones
    /\ Len(yielded) = 137
    /\ Last(yielded) = "YellowGreen"

====
